---- MODULE Spec2Model ----
(***************************************************************************)
(* School-management GraphQL backend (Lesson / Student) over a document    *)
(* store.  The model covers the two services (StudentService,              *)
(* LessonService), the resolvers in front of them, the global              *)
(* ValidationPipe with the three input DTOs, and the repository calls the  *)
(* services make (findOne, find, create + save).                           *)
(*                                                                         *)
(* Representation of values                                                *)
(*   - a free-text string (name, firstName, lastName) is represented by    *)
(*     its length, the only thing the validators read;                     *)
(*   - an id is a string; V4Uuids are well-formed version-4 UUIDs,         *)
(*     OtherUuids are well-formed UUIDs of another version, anything else  *)
(*     is malformed;                                                       *)
(*   - a date is a string; ISO8601Strings are the well-formed ones;        *)
(*   - a collection is the sequence of its documents in natural order; a   *)
(*     document's _id (the driver's object id) is its position.            *)
(***************************************************************************)
EXTENDS Integers, Sequences, FiniteSets, TLC

VARIABLES
    studentRepository,  \* the Student collection
    lessonRepository,   \* the Lesson collection
    calls,              \* assignStudentsToLesson calls, each at its await point
    resp,               \* the response of the last step, until it has gone out
    studentInputs,      \* history: inputs of the createStudent calls that succeeded
    lessonInputs,       \* history: inputs of the createLesson calls that succeeded
    assigned            \* history: <<lesson id, student id>> of the assignments answered "ok"

vars == <<studentRepository, lessonRepository, calls, resp, studentInputs, lessonInputs, assigned>>

-----------------------------------------------------------------------------
(* Bounds of the model *)

MaxStudents == 2

MaxLessons == 2

MaxListLen == 2

-----------------------------------------------------------------------------
(* Value domains *)

Null == [null |-> TRUE]

Range(seq) == {seq[i] : i \in 1..Len(seq)}

\* uuid() results, in the order the model hands them out
UuidPool == <<"u1", "u2", "u3", "u4", "u5", "u6", "u7", "u8">>

V4Uuids == {UuidPool[i] : i \in 1..Len(UuidPool)}

\* well-formed UUIDs of a version other than 4
OtherUuids == {"v1"}

ISO8601Strings == {"2021-04-16T18:00:00Z", "2021-04-16T18:30:00Z"}

\* the assignStudentsToLesson requests that can be in progress at a time
Calls == {1, 2}

-----------------------------------------------------------------------------
(* GraphQL input types: the fields of an input object must be fields the   *)
(* type declares                                                           *)

InputType(in, fields) == DOMAIN in \subseteq fields

CreateStudentInputFields == {"firstName", "lastName"}

CreateLessonInputFields == {"name", "startDate", "endDate", "students"}

-----------------------------------------------------------------------------
(* class-validator decorators *)

Length(value, min, max) == value >= min /\ value <= max

MinLength(value, min) == value >= min

IsDateString(value) == value \in ISO8601Strings

IsUUID(value, version) ==
    IF version = "4" THEN value \in V4Uuids ELSE value \in V4Uuids \cup OtherUuids

\* CreateStudentInput with the decorator on lastName left out
CreateStudentInput_firstNameOnly(in) == Length(in.firstName, 1, 225)

CreateStudentInput(in) ==
    /\ Length(in.firstName, 1, 225)
    /\ Length(in.lastName, 1, 225)

\* the students field falls back to its schema default before validation
CreateLessonInputDefaults(in) ==
    IF "students" \in DOMAIN in THEN in ELSE [students |-> <<>>] @@ in

CreateLessonInput(in) ==
    /\ MinLength(in.name, 1)
    /\ IsDateString(in.startDate)
    /\ IsDateString(in.endDate)
    /\ \A i \in 1..Len(in.students) : IsUUID(in.students[i], "4")

\* AssignStudentsToLessonInput with the decorator on studentIds left out
AssignStudentsToLessonInput_lessonIdOnly(in) == IsUUID(in.lessonId, "all")

AssignStudentsToLessonInput(in) ==
    /\ IsUUID(in.lessonId, "all")
    /\ \A i \in 1..Len(in.studentIds) : IsUUID(in.studentIds[i], "4")

-----------------------------------------------------------------------------
(* Repository *)

\* does a document satisfy a where clause?  A clause is a field condition
\* { id }, an { id: { $in } } condition, or a bare string, which names no field
\* and so restricts nothing.
Matches(doc, where) ==
    CASE where.kind = "id" -> doc.id = where.id
      [] where.kind = "in" -> \E i \in 1..Len(where.ids) : where.ids[i] = doc.id
      [] OTHER -> TRUE

\* find(): the matching documents, in natural order
find(repository, where) == SelectSeq(repository, LAMBDA doc : Matches(doc, where))

\* findOne(): the documents it can return; which of several matching
\* documents comes first is up to the store
findOne(repository, where) ==
    IF find(repository, where) = <<>>
    THEN {Null}
    ELSE {find(repository, where)[i] : i \in 1..Len(find(repository, where))}

\* save() that inserts a new entity in the place of the first document
save_overFirst(repository, entity) ==
    IF "_id" \in DOMAIN entity
    THEN [repository EXCEPT ![entity._id] = entity]
    ELSE IF repository = <<>>
    THEN <<[_id |-> 1] @@ entity>>
    ELSE [repository EXCEPT ![1] = [_id |-> 1] @@ entity]

\* save(): insert an entity that has no _id yet, else replace the document
\* with that _id by the entity (the full record)
save(repository, entity) ==
    IF "_id" \in DOMAIN entity
    THEN [repository EXCEPT ![entity._id] = entity]
    ELSE Append(repository, [_id |-> Len(repository) + 1] @@ entity)

saved(repository, entity) ==
    IF "_id" \in DOMAIN entity THEN entity ELSE [_id |-> Len(repository) + 1] @@ entity

\* uuid() that returns the same UUID every time
uuid_fixed == UuidPool[1]

\* uuid(): a fresh version-4 UUID
uuid == UuidPool[Len(studentRepository) + Len(lessonRepository) + 1]

-----------------------------------------------------------------------------
(* StudentService *)

\* findOne({ where: id }): the where clause is the id string itself
StudentService_getStudent(id) ==
    findOne(studentRepository, [kind |-> "string", value |-> id])

StudentService_getStudents == find(studentRepository, [kind |-> "all"])

\* createStudent with the two names taken from each other's field
StudentService_createStudent_swapped(createStudentInput) ==
    [id |-> uuid,
     firstName |-> createStudentInput.lastName,
     lastName |-> createStudentInput.firstName]

\* the entity createStudent builds and hands to save()
StudentService_createStudent(createStudentInput) ==
    [id |-> uuid,
     firstName |-> createStudentInput.firstName,
     lastName |-> createStudentInput.lastName]

\* getManyStudents without its where clause
StudentService_getManyStudents_noWhere(studentIds) == find(studentRepository, [kind |-> "all"])

\* getManyStudents that looks the ids up one after the other
RECURSIVE StudentService_getManyStudents_perId(_)
StudentService_getManyStudents_perId(studentIds) ==
    IF studentIds = <<>>
    THEN <<>>
    ELSE find(studentRepository, [kind |-> "id", id |-> Head(studentIds)])
             \o StudentService_getManyStudents_perId(Tail(studentIds))

StudentService_getManyStudents(studentIds) ==
    find(studentRepository, [kind |-> "in", ids |-> studentIds])

-----------------------------------------------------------------------------
(* LessonService *)

\* getLesson with the where clause that getStudent has
LessonService_getLesson_stringWhere(id) ==
    findOne(lessonRepository, [kind |-> "string", value |-> id])

LessonService_getLesson(id) ==
    findOne(lessonRepository, [kind |-> "id", id |-> id])

LessonService_getLessons == find(lessonRepository, [kind |-> "all"])

\* createLesson as it was before it took students from the input
LessonService_createLesson_emptyStudents(createLessonInput) ==
    [id |-> uuid,
     name |-> createLessonInput.name,
     startDate |-> createLessonInput.startDate,
     endDate |-> createLessonInput.endDate,
     students |-> <<>>]

\* createLesson that keeps only the ids of stored students
LessonService_createLesson_knownStudents(createLessonInput) ==
    [id |-> uuid,
     name |-> createLessonInput.name,
     startDate |-> createLessonInput.startDate,
     endDate |-> createLessonInput.endDate,
     students |-> SelectSeq(createLessonInput.students,
                            LAMBDA id : \E doc \in Range(studentRepository) : doc.id = id)]

\* the entity createLesson builds and hands to save()
LessonService_createLesson(createLessonInput) ==
    [id |-> uuid,
     name |-> createLessonInput.name,
     startDate |-> createLessonInput.startDate,
     endDate |-> createLessonInput.endDate,
     students |-> createLessonInput.students]

\* assignStudentsToLesson that skips the ids the lesson already has
LessonService_assignStudentsToLesson_dedup(lesson, studentIds) ==
    [lesson EXCEPT !.students =
        lesson.students \o SelectSeq(studentIds, LAMBDA id : id \notin Range(lesson.students))]

\* assignStudentsToLesson that appends to the list stored at the time of the save
LessonService_assignStudentsToLesson_stored(lesson, studentIds) ==
    [lesson EXCEPT !.students = lessonRepository[lesson._id].students \o studentIds]

\* assignStudentsToLesson that also gives the lesson a new id
LessonService_assignStudentsToLesson_newId(lesson, studentIds) ==
    [lesson EXCEPT !.students = lesson.students \o studentIds, !.id = uuid]

\* assignStudentsToLesson that also clears the lesson's name
LessonService_assignStudentsToLesson_renaming(lesson, studentIds) ==
    [lesson EXCEPT !.students = lesson.students \o studentIds, !.name = 0]

\* assignStudentsToLesson that spreads the incoming ids before the lesson's
LessonService_assignStudentsToLesson_prepend(lesson, studentIds) ==
    [lesson EXCEPT !.students = studentIds \o lesson.students]

\* assignStudentsToLesson after its findOne: the loaded entity with the
\* incoming ids spread behind its students
LessonService_assignStudentsToLesson(lesson, studentIds) ==
    [lesson EXCEPT !.students = lesson.students \o studentIds]

-----------------------------------------------------------------------------
(* Responses *)

Response(op, in, status, value) ==
    [op |-> op, in |-> in, status |-> status, value |-> value]

NoResponse == Response("none", Null, "none", Null)

IdleCall == [pc |-> "idle"]

Init ==
    /\ studentRepository = <<>>
    /\ lessonRepository = <<>>
    /\ calls = [c \in Calls |-> IdleCall]
    /\ resp = NoResponse
    /\ studentInputs = <<>>
    /\ lessonInputs = <<>>
    /\ assigned = {}

-----------------------------------------------------------------------------
(* StudentResolver *)

StudentResolver_student(id) ==
    /\ \E r \in StudentService_getStudent(id) :
           resp' = Response("student", id, "ok", r)
    /\ UNCHANGED <<studentRepository, lessonRepository, calls, studentInputs, lessonInputs, assigned>>

StudentResolver_students ==
    /\ resp' = Response("students", Null, "ok", StudentService_getStudents)
    /\ UNCHANGED <<studentRepository, lessonRepository, calls, studentInputs, lessonInputs, assigned>>

StudentResolver_createStudent(in) ==
    IF ~InputType(in, CreateStudentInputFields)
    THEN /\ resp' = Response("createStudent", in, "schema", Null)
         /\ UNCHANGED <<studentRepository, lessonRepository, calls, studentInputs, lessonInputs, assigned>>
    ELSE IF ~CreateStudentInput(in)
    THEN /\ resp' = Response("createStudent", in, "validation", Null)
         /\ UNCHANGED <<studentRepository, lessonRepository, calls, studentInputs, lessonInputs, assigned>>
    ELSE /\ studentRepository' = save(studentRepository, StudentService_createStudent(in))
         /\ resp' = Response("createStudent", in, "ok",
                             saved(studentRepository, StudentService_createStudent(in)))
         /\ studentInputs' = Append(studentInputs, in)
         /\ UNCHANGED <<lessonRepository, calls, lessonInputs, assigned>>

-----------------------------------------------------------------------------
(* LessonResolver *)

LessonResolver_lesson(id) ==
    /\ \E r \in LessonService_getLesson(id) :
           resp' = Response("lesson", id, "ok", r)
    /\ UNCHANGED <<studentRepository, lessonRepository, calls, studentInputs, lessonInputs, assigned>>

LessonResolver_lessons ==
    /\ resp' = Response("lessons", Null, "ok", LessonService_getLessons)
    /\ UNCHANGED <<studentRepository, lessonRepository, calls, studentInputs, lessonInputs, assigned>>

LessonResolver_createLesson(in) ==
    IF ~InputType(in, CreateLessonInputFields)
    THEN /\ resp' = Response("createLesson", in, "schema", Null)
         /\ UNCHANGED <<studentRepository, lessonRepository, calls, studentInputs, lessonInputs, assigned>>
    ELSE IF ~CreateLessonInput(CreateLessonInputDefaults(in))
    THEN /\ resp' = Response("createLesson", in, "validation", Null)
         /\ UNCHANGED <<studentRepository, lessonRepository, calls, studentInputs, lessonInputs, assigned>>
    ELSE /\ lessonRepository' =
                save(lessonRepository, LessonService_createLesson(CreateLessonInputDefaults(in)))
         /\ resp' = Response("createLesson", in, "ok",
                saved(lessonRepository, LessonService_createLesson(CreateLessonInputDefaults(in))))
         /\ lessonInputs' = Append(lessonInputs, in)
         /\ UNCHANGED <<studentRepository, calls, studentInputs, assigned>>

\* assignStudentsToLesson up to its await of findOne: validation, the load,
\* and the dereference of the loaded lesson
LessonResolver_assignStudentsToLesson(c, in) ==
    /\ calls[c].pc = "idle"
    /\ IF ~AssignStudentsToLessonInput(in)
       THEN /\ resp' = Response("assignStudentsToLesson", in, "validation", Null)
            /\ UNCHANGED calls
       ELSE \E lesson \in LessonService_getLesson(in.lessonId) :
                IF lesson = Null
                THEN /\ resp' = Response("assignStudentsToLesson", in, "error", Null)
                     /\ UNCHANGED calls
                ELSE /\ calls' = [calls EXCEPT ![c] =
                            [pc |-> "loaded", in |-> in, lesson |-> lesson]]
                     /\ UNCHANGED resp
    /\ UNCHANGED <<studentRepository, lessonRepository, studentInputs, lessonInputs, assigned>>

\* assignStudentsToLesson from the assignment to lesson.students to its return
LessonService_assignStudentsToLesson_save(c) ==
    /\ calls[c].pc = "loaded"
    /\ lessonRepository' = save(lessonRepository,
           LessonService_assignStudentsToLesson(calls[c].lesson, calls[c].in.studentIds))
    /\ resp' = Response("assignStudentsToLesson", calls[c].in, "ok",
           saved(lessonRepository,
                 LessonService_assignStudentsToLesson(calls[c].lesson, calls[c].in.studentIds)))
    /\ calls' = [calls EXCEPT ![c] = IdleCall]
    /\ assigned' = assigned \cup {<<calls[c].in.lessonId, id>> : id \in Range(calls[c].in.studentIds)}
    /\ UNCHANGED <<studentRepository, studentInputs, lessonInputs>>

\* the students field that also drops from the stored lesson the ids of no
\* stored student
LessonResolver_students_pruning(lesson) ==
    /\ resp' = Response("Lesson.students", lesson, "ok",
                        StudentService_getManyStudents(lesson.students))
    /\ lessonRepository' = [lessonRepository EXCEPT ![lesson._id].students =
           SelectSeq(lesson.students,
                     LAMBDA id : \E doc \in Range(studentRepository) : doc.id = id)]
    /\ UNCHANGED <<studentRepository, calls, studentInputs, lessonInputs, assigned>>

\* the students field of a returned lesson
LessonResolver_students(lesson) ==
    /\ resp' = Response("Lesson.students", lesson, "ok",
                        StudentService_getManyStudents(lesson.students))
    /\ UNCHANGED <<studentRepository, lessonRepository, calls, studentInputs, lessonInputs, assigned>>

-----------------------------------------------------------------------------
(* Requests of the model's clients.  A free-text string is given by its    *)
(* length.                                                                 *)

\* ids sent with the student and lesson queries (an unvalidated String)
QueryIds == {"u1", "u2", "bad"}

CreateStudentInputs ==
    {[firstName |-> 1, lastName |-> 225],
     [firstName |-> 0, lastName |-> 1], [firstName |-> 1, lastName |-> 0],
     [firstName |-> 226, lastName |-> 1], [firstName |-> 1, lastName |-> 226],
     [id |-> "u1", firstName |-> 1, lastName |-> 1]}

CreateLessonInputs ==
    {[name |-> 4, startDate |-> "2021-04-16T18:00:00Z", endDate |-> "2021-04-16T18:30:00Z"],
     [name |-> 4, startDate |-> "2021-04-16T18:00:00Z", endDate |-> "2021-04-16T18:30:00Z",
      students |-> <<"u2", "u1">>],
     [name |-> 0, startDate |-> "2021-04-16T18:00:00Z", endDate |-> "2021-04-16T18:30:00Z"],
     [name |-> 4, startDate |-> "soon", endDate |-> "2021-04-16T18:30:00Z"],
     [name |-> 4, startDate |-> "2021-04-16T18:00:00Z", endDate |-> "later"],
     [name |-> 4, startDate |-> "2021-04-16T18:00:00Z", endDate |-> "2021-04-16T18:30:00Z",
      students |-> <<"u1", "bad">>],
     [name |-> 4, startDate |-> "2021-04-16T18:00:00Z", endDate |-> "2021-04-16T18:30:00Z",
      students |-> <<"v1">>],
     [id |-> "u1", name |-> 4, startDate |-> "2021-04-16T18:00:00Z",
      endDate |-> "2021-04-16T18:30:00Z"]}

AssignStudentsToLessonInputs ==
    [lessonId : {"u1", "u2", "v1"}, studentIds : {<<>>, <<"u1">>, <<"u2">>}]
    \cup {[lessonId |-> "bad", studentIds |-> <<"u1">>],
          [lessonId |-> "u1", studentIds |-> <<"bad">>],
          [lessonId |-> "u2", studentIds |-> <<"u1", "v1">>]}

\* the model stops assigning to a lesson whose list would outgrow MaxListLen
WithinListLen(in) ==
    \A i \in 1..Len(lessonRepository) :
        lessonRepository[i].id = in.lessonId
            => Len(lessonRepository[i].students) + Len(in.studentIds) <= MaxListLen

\* a new request runs as the first call that is not in progress
FreeCall ==
    CHOOSE c \in Calls : calls[c].pc = "idle" /\ \A d \in Calls : calls[d].pc = "idle" => c <= d

InProgress == {c \in Calls : calls[c].pc = "loaded"}

\* the response of the last step goes out to its client
Respond ==
    /\ resp.op # "none"
    /\ resp' = NoResponse
    /\ UNCHANGED <<studentRepository, lessonRepository, calls, studentInputs, lessonInputs, assigned>>

\* the server takes up a request once the last response has gone out
Idle == resp.op = "none"

\* the server under clients that send one assignStudentsToLesson at a time
Next ==
    \/ \E id \in QueryIds : Idle /\ StudentResolver_student(id)
    \/ Idle /\ StudentResolver_students
    \/ \E in \in CreateStudentInputs :
           Idle /\ Len(studentRepository) < MaxStudents /\ StudentResolver_createStudent(in)
    \/ \E id \in QueryIds : Idle /\ LessonResolver_lesson(id)
    \/ Idle /\ LessonResolver_lessons
    \/ \E in \in CreateLessonInputs :
           Idle /\ Len(lessonRepository) < MaxLessons /\ LessonResolver_createLesson(in)
    \/ \E in \in AssignStudentsToLessonInputs :
           /\ Idle
           /\ WithinListLen(in)
           /\ InProgress = {}
           /\ LessonResolver_assignStudentsToLesson(FreeCall, in)
    \/ \E c \in Calls : Idle /\ LessonService_assignStudentsToLesson_save(c)
    \/ \E i \in 1..Len(lessonRepository) : Idle /\ LessonResolver_students(lessonRepository[i])
    \/ Respond

Spec == Init /\ [][Next]_vars

\* the server under clients that send assignStudentsToLesson concurrently,
\* on one lesson
RaceNext ==
    \/ \E id \in QueryIds : Idle /\ LessonResolver_lesson(id)
    \/ Idle /\ LessonResolver_lessons
    \/ \E in \in CreateLessonInputs :
           Idle /\ lessonRepository = <<>> /\ LessonResolver_createLesson(in)
    \/ \E in \in AssignStudentsToLessonInputs :
           /\ Idle
           /\ WithinListLen(in)
           /\ InProgress # Calls
           /\ LessonResolver_assignStudentsToLesson(FreeCall, in)
    \/ \E c \in Calls : Idle /\ LessonService_assignStudentsToLesson_save(c)
    \/ Respond

SpecRace == Init /\ [][RaceNext]_vars

-----------------------------------------------------------------------------
(* Helpers of the properties *)

IsPrefix(p, q) == Len(p) <= Len(q) /\ SubSeq(q, 1, Len(p)) = p

\* an id that is no UUID of any version
Malformed(id) == id \notin V4Uuids \cup OtherUuids

\* the step in which call c saves its lesson and returns
SaveStep(c) == calls[c].pc = "loaded" /\ calls'[c].pc = "idle"

-----------------------------------------------------------------------------
(* C1: createStudent answers a valid input with a record that has a        *)
(* generated non-empty id and the input's firstName and lastName, and the  *)
(* student query with the id of a stored student answers with exactly      *)
(* that student's record.                                                  *)
C1_CreateStudentThenGetStudent ==
    /\ (resp.op = "createStudent" /\ resp.status = "ok")
           => /\ resp.value.id \in V4Uuids
              /\ resp.value.firstName = resp.in.firstName
              /\ resp.value.lastName = resp.in.lastName
    /\ resp.op = "student"
           => \A s \in Range(studentRepository) : s.id = resp.in => resp.value = s

-----------------------------------------------------------------------------
(* C2: a call of assignStudentsToLesson whose lesson is, when it saves,    *)
(* still the record it loaded (no interference) leaves the lesson stored   *)
(* with its former students followed by the incoming ids, in order and     *)
(* with repetitions kept, and returns that record.                         *)
C2_AssignAppendsInOrder ==
    [][\A c \in Calls :
          (SaveStep(c) /\ lessonRepository[calls[c].lesson._id] = calls[c].lesson)
              => /\ lessonRepository'[calls[c].lesson._id].students
                        = lessonRepository[calls[c].lesson._id].students \o calls[c].in.studentIds
                 /\ resp'.status = "ok"
                 /\ resp'.value = lessonRepository'[calls[c].lesson._id]
                 /\ resp'.value.id = calls[c].in.lessonId]_vars

\* an id that was already in the list has been appended a second time
C2_Witness ==
    /\ resp.op = "assignStudentsToLesson"
    /\ resp.status = "ok"
    /\ resp.value.students = <<"u1", "u1">>
    /\ lessonRepository[resp.value._id].students = <<"u1", "u1">>

-----------------------------------------------------------------------------
(* C3: when a call of assignStudentsToLesson saves a lesson that another   *)
(* call has changed since the load, it still returns successfully and the  *)
(* stored students become the loaded list followed by this call's ids      *)
(* alone: what the other call appended is gone (last write wins on the     *)
(* full record).                                                           *)
C3_LastWriteWins ==
    [][\A c \in Calls :
          (SaveStep(c) /\ lessonRepository[calls[c].lesson._id] # calls[c].lesson)
              => /\ resp'.status = "ok"
                 /\ lessonRepository'[calls[c].lesson._id].students
                        = calls[c].lesson.students \o calls[c].in.studentIds
                 /\ resp'.value = lessonRepository'[calls[c].lesson._id]]_vars

\* both of two concurrent calls on a lesson have returned "ok", and an id
\* that one of them assigned is not in the stored list
C3_Witness ==
    /\ resp.op = "assignStudentsToLesson"
    /\ resp.status = "ok"
    /\ InProgress = {}
    /\ \E l \in Range(lessonRepository) :
           /\ <<l.id, "u1">> \in assigned
           /\ <<l.id, "u2">> \in assigned
           /\ "u1" \notin Range(l.students)
           /\ "u2" \in Range(l.students)

-----------------------------------------------------------------------------
(* C4: the students field of a lesson resolves to exactly the stored       *)
(* student records whose id occurs in the lesson's id list; an id that     *)
(* matches no student yields no entry at all.                              *)
C4_StudentsFieldResolvesStored ==
    resp.op = "Lesson.students"
        => /\ resp.status = "ok"
           /\ Range(resp.value)
                  = {s \in Range(studentRepository) : s.id \in Range(resp.in.students)}
           /\ Len(resp.value) <= Len(studentRepository)

\* a list of one student's id and one id of no student resolves to one record
C4_Witness ==
    /\ resp.op = "Lesson.students"
    /\ Len(resp.in.students) = 2
    /\ Len(resp.value) = 1
    /\ \E i \in 1..2 : \A s \in Range(studentRepository) : s.id # resp.in.students[i]

-----------------------------------------------------------------------------
(* C5 *)

\* the students list a createLesson input stands for
InputStudents(in) == IF "students" \in DOMAIN in THEN in.students ELSE <<>>

CarriesStudentInput(student, in) ==
    student.firstName = in.firstName /\ student.lastName = in.lastName

CarriesLessonInput(lesson, in) ==
    lesson.name = in.name /\ lesson.startDate = in.startDate /\ lesson.endDate = in.endDate

(* C5, as stated: lessons() and students() return as many elements as      *)
(* there were successful createLesson / createStudent calls, and every     *)
(* element carries all field values of its creation input.                 *)
C5_ListsRoundTripAllFields ==
    /\ resp.op = "lessons"
           => /\ Len(resp.value) = Len(lessonInputs)
              /\ \A i \in 1..Len(resp.value) :
                     /\ CarriesLessonInput(resp.value[i], lessonInputs[i])
                     /\ resp.value[i].students = InputStudents(lessonInputs[i])
    /\ resp.op = "students"
           => /\ Len(resp.value) = Len(studentInputs)
              /\ \A i \in 1..Len(resp.value) :
                     CarriesStudentInput(resp.value[i], studentInputs[i])

(* C5, amended: the same, except that a lesson's students list begins      *)
(* with the list of its creation input (assignStudentsToLesson may have    *)
(* put further ids behind it).                                             *)
C5_ListsRoundTripCreationFields ==
    /\ resp.op = "lessons"
           => /\ Len(resp.value) = Len(lessonInputs)
              /\ \A i \in 1..Len(resp.value) :
                     /\ CarriesLessonInput(resp.value[i], lessonInputs[i])
                     /\ IsPrefix(InputStudents(lessonInputs[i]), resp.value[i].students)
    /\ resp.op = "students"
           => /\ Len(resp.value) = Len(studentInputs)
              /\ \A i \in 1..Len(resp.value) :
                     CarriesStudentInput(resp.value[i], studentInputs[i])

\* lessons() returns two lessons, one of them with an id assigned after its creation
C5_Witness ==
    /\ resp.op = "lessons"
    /\ Len(resp.value) = 2
    /\ Len(studentInputs) = 2
    /\ \E i \in 1..2 : resp.value[i].students # InputStudents(lessonInputs[i])

-----------------------------------------------------------------------------
(* C6: a createStudent call whose firstName or lastName has length 0 or    *)
(* more than 225 is answered with a validation error and leaves both       *)
(* collections as they were.                                               *)
C6_CreateStudentRejectsBadNames ==
    [][(/\ resp'.op = "createStudent"
        /\ \/ resp'.in.firstName = 0
           \/ resp'.in.firstName > 225
           \/ resp'.in.lastName = 0
           \/ resp'.in.lastName > 225)
           => /\ resp'.status = "validation"
              /\ studentRepository' = studentRepository
              /\ lessonRepository' = lessonRepository]_vars

\* a 226-character lastName has been rejected while a student was stored
C6_Witness ==
    /\ resp.op = "createStudent"
    /\ resp.status = "validation"
    /\ resp.in.lastName = 226
    /\ Len(studentRepository) = 1

-----------------------------------------------------------------------------
(* C7: the lesson createLesson stores has the students list of the input,  *)
(* in the input's order, and the empty list when the input has no          *)
(* students.                                                               *)
C7_CreateLessonStoresStudents ==
    (resp.op = "createLesson" /\ resp.status = "ok")
        => /\ resp.value._id \in 1..Len(lessonRepository)
           /\ lessonRepository[resp.value._id] = resp.value
           /\ resp.value.students
                  = (IF "students" \in DOMAIN resp.in THEN resp.in.students ELSE <<>>)

\* a lesson has been created from an input without students
C7_Witness ==
    /\ resp.op = "createLesson"
    /\ resp.status = "ok"
    /\ "students" \notin DOMAIN resp.in
    /\ lessonRepository[resp.value._id].students = <<>>

-----------------------------------------------------------------------------
(* C8: assignStudentsToLesson with a lessonId that is the id of no stored   *)
(* lesson fails (with an error of the service when the input is            *)
(* well-formed, with a validation error otherwise), returns no lesson,     *)
(* and leaves both collections as they were.                               *)
C8_AssignToMissingLessonFails ==
    [][(/\ resp'.op = "assignStudentsToLesson"
        /\ \A l \in Range(lessonRepository) : l.id # resp'.in.lessonId)
           => /\ resp'.status \in {"validation", "error"}
              /\ ~Malformed(resp'.in.lessonId) /\ (\A id \in Range(resp'.in.studentIds) : id \in V4Uuids)
                     => resp'.status = "error"
              /\ resp'.value = Null
              /\ lessonRepository' = lessonRepository
              /\ studentRepository' = studentRepository
              /\ calls' = calls]_vars

\* an assignment to a missing lesson has failed while another lesson was stored
C8_Witness ==
    /\ resp.op = "assignStudentsToLesson"
    /\ resp.status = "error"
    /\ resp.in.lessonId = "u2"
    /\ Len(lessonRepository) = 1

-----------------------------------------------------------------------------
(* C9: the student and lesson queries answer an id of no stored record     *)
(* with null and never with an error, and an id of a stored record with    *)
(* that record.                                                            *)
C9_LookupByIdOrNull ==
    /\ resp.op = "student"
           => /\ resp.status = "ok"
              /\ IF \E s \in Range(studentRepository) : s.id = resp.in
                 THEN resp.value \in Range(studentRepository) /\ resp.value.id = resp.in
                 ELSE resp.value = Null
    /\ resp.op = "lesson"
           => /\ resp.status = "ok"
              /\ IF \E l \in Range(lessonRepository) : l.id = resp.in
                 THEN resp.value \in Range(lessonRepository) /\ resp.value.id = resp.in
                 ELSE resp.value = Null

-----------------------------------------------------------------------------
\* the response r is to a createLesson call with an empty name, a malformed
\* date or a malformed student id, or to an assignStudentsToLesson call with
\* a malformed lessonId or student id
C10_BadInput(r) ==
    \/ /\ r.op = "createLesson"
       /\ \/ r.in.name = 0
          \/ r.in.startDate \notin ISO8601Strings
          \/ r.in.endDate \notin ISO8601Strings
          \/ \E id \in Range(InputStudents(r.in)) : Malformed(id)
    \/ /\ r.op = "assignStudentsToLesson"
       /\ \/ Malformed(r.in.lessonId)
          \/ \E id \in Range(r.in.studentIds) : Malformed(id)

(* C10: a createLesson call with an empty name, a malformed startDate or   *)
(* endDate or a malformed student id, and an assignStudentsToLesson call   *)
(* with a malformed lessonId or student id, is answered with a validation  *)
(* error; it creates and changes no lesson and starts no assignment.       *)
C10_LessonInputsRejected ==
    [][/\ C10_BadInput(resp')
              => /\ resp'.status = "validation"
                 /\ lessonRepository' = lessonRepository
                 /\ calls' = calls
       /\ \A c \in Calls :
              calls'[c].pc = "loaded"
                  => /\ ~Malformed(calls'[c].in.lessonId)
                     /\ \A id \in Range(calls'[c].in.studentIds) : ~Malformed(id)]_vars

\* an assignment with a malformed student id has been rejected for a stored lesson
C10_Witness ==
    /\ resp.op = "assignStudentsToLesson"
    /\ resp.status = "validation"
    /\ resp.in.studentIds = <<"bad">>
    /\ \E l \in Range(lessonRepository) : l.id = resp.in.lessonId

-----------------------------------------------------------------------------
\* the ids of the stored records other than the one at position k of repository
OtherIds(repository, k, other) ==
    {repository[i].id : i \in 1..Len(repository) \ {k}} \cup {doc.id : doc \in Range(other)}

(* C11: no two stored students and no two stored lessons share an id; the  *)
(* record a create operation stores has a generated version-4 UUID that    *)
(* no other stored record has, and an input that carries an id field of    *)
(* its own is rejected, so no client value becomes an id.                  *)
C11_GeneratedIdsUnique ==
    /\ \A i, j \in 1..Len(studentRepository) :
           studentRepository[i].id = studentRepository[j].id => i = j
    /\ \A i, j \in 1..Len(lessonRepository) :
           lessonRepository[i].id = lessonRepository[j].id => i = j
    /\ (resp.op = "createStudent" /\ resp.status = "ok")
           => /\ resp.value.id \in V4Uuids
              /\ resp.value.id \notin OtherIds(studentRepository, resp.value._id, lessonRepository)
    /\ (resp.op = "createLesson" /\ resp.status = "ok")
           => /\ resp.value.id \in V4Uuids
              /\ resp.value.id \notin OtherIds(lessonRepository, resp.value._id, studentRepository)
    /\ (resp.op \in {"createStudent", "createLesson"} /\ "id" \in DOMAIN resp.in)
           => resp.status = "schema"

\* the second lesson has been created while two students were stored
C11_Witness ==
    /\ resp.op = "createLesson"
    /\ resp.status = "ok"
    /\ Len(lessonRepository) = 2
    /\ Len(studentRepository) = 2

-----------------------------------------------------------------------------
(* C12: whatever the step (a create, an assignStudentsToLesson save, a     *)
(* query), every document of either collection stays where it is and has   *)
(* after the step the id it had before it.                                 *)
C12_IdsNeverChange ==
    [][/\ Len(studentRepository') >= Len(studentRepository)
       /\ Len(lessonRepository') >= Len(lessonRepository)
       /\ \A i \in 1..Len(studentRepository) :
              studentRepository'[i].id = studentRepository[i].id
       /\ \A i \in 1..Len(lessonRepository) :
              lessonRepository'[i].id = lessonRepository[i].id]_vars

\* students have been assigned to the second of two lessons, which is still
\* stored under the id the assignment named
C12_Witness ==
    /\ resp.op = "assignStudentsToLesson"
    /\ resp.status = "ok"
    /\ Len(lessonRepository) = 2
    /\ lessonRepository[2].id = resp.in.lessonId
    /\ lessonRepository[2].students # InputStudents(lessonInputs[2])

-----------------------------------------------------------------------------
\* the ids of list that are ids of no stored student
Dangling(list) ==
    {id \in Range(list) : \A doc \in Range(studentRepository) : doc.id # id}

(* C13: createLesson stores the students list of every well-formed input   *)
(* and assignStudentsToLesson appends every well-formed id list to an      *)
(* existing lesson, whether or not the ids are ids of stored students: an  *)
(* assignment is refused only for a malformed input or a missing lesson.   *)
C13_NoForeignKeyCheck ==
    [][/\ (/\ resp'.op = "createLesson"
           /\ DOMAIN resp'.in \subseteq {"name", "startDate", "endDate", "students"}
           /\ resp'.in.name >= 1
           /\ resp'.in.startDate \in ISO8601Strings
           /\ resp'.in.endDate \in ISO8601Strings
           /\ Range(InputStudents(resp'.in)) \subseteq V4Uuids)
              => /\ resp'.status = "ok"
                 /\ Len(lessonRepository') = Len(lessonRepository) + 1
                 /\ lessonRepository'[Len(lessonRepository')].students = InputStudents(resp'.in)
       /\ (resp'.op = "assignStudentsToLesson" /\ resp'.status = "validation")
              => \/ Malformed(resp'.in.lessonId)
                 \/ ~(Range(resp'.in.studentIds) \subseteq V4Uuids)
       /\ (resp'.op = "assignStudentsToLesson" /\ resp'.status = "error")
              => \A l \in Range(lessonRepository) : l.id # resp'.in.lessonId
       /\ \A c \in Calls :
              SaveStep(c)
                  => /\ resp'.status = "ok"
                     /\ Range(calls[c].in.studentIds)
                            \subseteq Range(lessonRepository'[calls[c].lesson._id].students)]_vars

\* one lesson was created with ids of no student, and ids of no student have
\* been assigned to another
C13_Witness ==
    /\ resp.op = "assignStudentsToLesson"
    /\ resp.status = "ok"
    /\ Dangling(resp.in.studentIds) # {}
    /\ Dangling(lessonRepository[resp.value._id].students) # {}
    /\ \E i \in 1..Len(lessonRepository) :
           /\ i # resp.value._id
           /\ Dangling(InputStudents(lessonInputs[i])) # {}
           /\ Dangling(lessonRepository[i].students) # {}

-----------------------------------------------------------------------------
\* how many times record occurs in list
Occurrences(list, record) == Cardinality({i \in 1..Len(list) : list[i] = record})

(* C14: the students getManyStudents returns for a lesson's id list are    *)
(* stored students only; a stored student whose id is in the list is       *)
(* returned exactly once, however often the list repeats the id, and a     *)
(* stored student whose id is not in the list is not returned.             *)
C14_GetManyStudentsIsSetLookup ==
    resp.op = "Lesson.students"
        => /\ \A i \in 1..Len(resp.value) : resp.value[i] \in Range(studentRepository)
           /\ \A s \in Range(studentRepository) :
                  Occurrences(resp.value, s)
                      = (IF s.id \in Range(resp.in.students) THEN 1 ELSE 0)

\* a list that names one of two stored students twice has resolved to that
\* student, once
C14_Witness ==
    /\ resp.op = "Lesson.students"
    /\ Len(resp.in.students) = 2
    /\ resp.in.students[1] = resp.in.students[2]
    /\ Len(studentRepository) = 2
    /\ Len(resp.value) = 1
    /\ resp.value[1].id = resp.in.students[1]

-----------------------------------------------------------------------------
(* C15: every record that was created is stored in every later state     *)
(* (the collections hold one document for each successful create, in the   *)
(* order of creation, with the created values), is what the student /      *)
(* lesson query returns for its id, and is an element of what students()   *)
(* / lessons() return.                                                     *)
C15_RecordsStayReadable ==
    /\ Len(studentRepository) = Len(studentInputs)
    /\ Len(lessonRepository) = Len(lessonInputs)
    /\ \A i \in 1..Len(studentRepository) :
           CarriesStudentInput(studentRepository[i], studentInputs[i])
    /\ \A i \in 1..Len(lessonRepository) :
           CarriesLessonInput(lessonRepository[i], lessonInputs[i])
    /\ resp.op = "student"
           => \A s \in Range(studentRepository) : s.id = resp.in => resp.value = s
    /\ resp.op = "lesson"
           => \A l \in Range(lessonRepository) : l.id = resp.in => resp.value = l
    /\ resp.op = "students"
           => Range(studentRepository) \subseteq Range(resp.value)
    /\ resp.op = "lessons"
           => Range(lessonRepository) \subseteq Range(resp.value)

-----------------------------------------------------------------------------
(* C16: an operation runs from start to end with no other request in       *)
(* between: when an assignStudentsToLesson call saves its lesson, the      *)
(* stored lesson is still the record the call loaded at its start.         *)
C16_OperationsAreAtomic ==
    [][\A c \in Calls :
          SaveStep(c) => lessonRepository[calls[c].lesson._id] = calls[c].lesson]_vars

-----------------------------------------------------------------------------
(* C17: in every step, concurrent assignStudentsToLesson calls included,   *)
(* the students list a lesson had before the step is a prefix of the list  *)
(* it has after it.                                                        *)
C17_StudentsOnlyGrow ==
    [][\A i \in 1..Len(lessonRepository) :
          IsPrefix(lessonRepository[i].students, lessonRepository'[i].students)]_vars

-----------------------------------------------------------------------------
(* C18: the save of a successful assignStudentsToLesson call leaves the    *)
(* student collection and the number of lessons as they were, leaves       *)
(* every lesson but the one with the call's lessonId as it was, and        *)
(* leaves that lesson's id, name, startDate and endDate as they were.      *)
C18_AssignChangesStudentsFieldOnly ==
    [][\A c \in Calls :
          SaveStep(c)
              => /\ resp'.status = "ok"
                 /\ studentRepository' = studentRepository
                 /\ Len(lessonRepository') = Len(lessonRepository)
                 /\ \A i \in 1..Len(lessonRepository) :
                        IF lessonRepository[i].id = calls[c].in.lessonId
                        THEN /\ lessonRepository'[i].id = lessonRepository[i].id
                             /\ lessonRepository'[i]._id = lessonRepository[i]._id
                             /\ lessonRepository'[i].name = lessonRepository[i].name
                             /\ lessonRepository'[i].startDate = lessonRepository[i].startDate
                             /\ lessonRepository'[i].endDate = lessonRepository[i].endDate
                             /\ DOMAIN lessonRepository'[i] = DOMAIN lessonRepository[i]
                        ELSE lessonRepository'[i] = lessonRepository[i]]_vars

\* an assignment has changed the students of one of two lessons while a
\* student was stored
C18_Witness ==
    /\ resp.op = "assignStudentsToLesson"
    /\ resp.status = "ok"
    /\ resp.in.studentIds # <<>>
    /\ Len(lessonRepository) = 2
    /\ Len(studentRepository) = 1
    /\ lessonRepository[resp.value._id].students # InputStudents(lessonInputs[resp.value._id])

-----------------------------------------------------------------------------
(* C19: a step that answers a student, students, lesson or lessons query   *)
(* or resolves the students field of a lesson (getManyStudents) leaves     *)
(* both collections exactly as they were.                                  *)
C19_ReadsLeaveStoreUnchanged ==
    [][(resp'.op \in {"student", "students", "lesson", "lessons", "Lesson.students"})
           => /\ studentRepository' = studentRepository
              /\ lessonRepository' = lessonRepository]_vars

\* the students field has been resolved for a lesson with the id of a stored
\* student and an id of none
C19_Witness ==
    /\ resp.op = "Lesson.students"
    /\ Dangling(resp.in.students) # {}
    /\ resp.value # <<>>
    /\ lessonRepository[resp.in._id] = resp.in

-----------------------------------------------------------------------------
(* C20: a successful createStudent appends one student to the student      *)
(* collection and a successful createLesson one lesson to the lesson       *)
(* collection: the documents stored before are all still there,            *)
(* unchanged, and the other collection is as it was.                       *)
C20_CreateAddsOneRecord ==
    [][/\ (resp'.op = "createStudent" /\ resp'.status = "ok")
              => /\ Len(studentRepository') = Len(studentRepository) + 1
                 /\ SubSeq(studentRepository', 1, Len(studentRepository)) = studentRepository
                 /\ studentRepository'[Len(studentRepository')] = resp'.value
                 /\ lessonRepository' = lessonRepository
       /\ (resp'.op = "createLesson" /\ resp'.status = "ok")
              => /\ Len(lessonRepository') = Len(lessonRepository) + 1
                 /\ SubSeq(lessonRepository', 1, Len(lessonRepository)) = lessonRepository
                 /\ lessonRepository'[Len(lessonRepository')] = resp'.value
                 /\ studentRepository' = studentRepository]_vars

\* the second student has been created while a lesson was stored
C20_Witness ==
    /\ resp.op = "createStudent"
    /\ resp.status = "ok"
    /\ Len(studentRepository) = 2
    /\ Len(lessonRepository) >= 1
    /\ studentRepository[2] = resp.value

-----------------------------------------------------------------------------
\* the collections in which an uninterrupted assignStudentsToLesson(lessonId,
\* studentIds) can leave the lesson collection repository: the lesson is
\* loaded, the ids are spread behind its students, the lesson is saved
Assigned(repository, lessonId, studentIds) ==
    {save(repository, LessonService_assignStudentsToLesson(lesson, studentIds)) :
        lesson \in findOne(repository, [kind |-> "id", id |-> lessonId]) \ {Null}}

\* the id lists of the well-formed assignStudentsToLesson inputs
AssignedLists ==
    {in.studentIds : in \in {i \in AssignStudentsToLessonInputs : AssignStudentsToLessonInput(i)}}

(* C21: the save of an uninterrupted assignStudentsToLesson call leaves    *)
(* the lesson collection as Assigned describes; and from every lesson      *)
(* collection a step produces, for every stored lesson and id lists A and  *)
(* B, assigning A and then B ends in the same collection as assigning A    *)
(* followed by B in one call, and assigning the empty list ends in the     *)
(* collection as it was.                                                   *)
C21_AssignmentsCompose ==
    [][/\ \A c \in Calls :
              SaveStep(c)
                  => lessonRepository'
                         \in Assigned(lessonRepository, calls[c].in.lessonId, calls[c].in.studentIds)
       /\ lessonRepository' # lessonRepository
              => \A l \in Range(lessonRepository') :
                     /\ Assigned(lessonRepository', l.id, <<>>) = {lessonRepository'}
                     /\ \A A, B \in AssignedLists :
                            UNION {Assigned(r, l.id, B) : r \in Assigned(lessonRepository', l.id, A)}
                                = Assigned(lessonRepository', l.id, A \o B)]_vars

\* "u2" has been assigned to a lesson created without students to which "u1"
\* had been assigned before
C21_Witness ==
    /\ resp.op = "assignStudentsToLesson"
    /\ resp.status = "ok"
    /\ resp.in.studentIds = <<"u2">>
    /\ InputStudents(lessonInputs[resp.value._id]) = <<>>
    /\ lessonRepository[resp.value._id].students = <<"u1", "u2">>

====
